---------------------------- MODULE Spec2Model ----------------------------
(***************************************************************************)
(* Model of the DER pipeline: the batch loop of main() (src/main.py), the  *)
(* ground-truth loader load_ground_truth (src/main.py), the diagnostics    *)
(* analyze_diarization and the classifier identify_problem_type            *)
(* (src/diagnostics.py), and the columns analyze_report reads              *)
(* (src/analyze_result.py).                                                *)
(*                                                                         *)
(* Conventions.  Python's None is the empty set and a value that may be    *)
(* None is a singleton set (Some).  Rates (DER and its components) are     *)
(* integers in units of 1e-5, so 0.2 is 20000 and 0.30001 is 30001.  Times *)
(* are integers.  A float quotient is an exact fraction [num, den].        *)
(***************************************************************************)
EXTENDS Integers, Sequences, FiniteSets, TLC

VARIABLES
    \* ---- main() ----
    table,      \* df: the rows of data.csv, each a recording descriptor
    i,          \* index of the row the loop is at (0 before the first)
    pc,         \* position of main() in its code
    results,    \* the list `results`
    hypothesis, \* local: the pipeline's output, or None while unbound
    diar_path,  \* local: Path of the RTTM file, or None
    metrics,    \* locals der, fa, md, conf, or None while unbound
    reports,    \* the report files written by to_csv, each the rows written
    hist,       \* history: per row, the external calls made and their outcomes
    \* ---- load_ground_truth ----
    entries,    \* data["transcriptions"] of the JSON read
    annotation, \* the Annotation returned, or None before the call
    \* ---- analyze_diarization ----
    reference,  \* the reference Annotation passed in
    hyp,        \* the hypothesis Annotation passed in
    diag,       \* the dict returned, or None before the call
    \* ---- identify_problem_type ----
    result,     \* the dict passed in
    label       \* the string returned, or "" before the call

mainVars == <<table, i, pc, results, hypothesis, diar_path, metrics, reports, hist>>
loadVars == <<entries, annotation>>
diagVars == <<reference, hyp, diag>>
typeVars == <<result, label>>
vars == <<mainVars, loadVars, diagVars, typeVars>>

None == {}
Some(x) == {x}
TheValue(opt) == CHOOSE x \in opt : TRUE

\* Sequences over S of length at most n.
SeqUpTo(S, n) == UNION {[1..k -> S] : k \in 0..n}

-----------------------------------------------------------------------------
(* Bounds of the model *)

MaxRecs == 2        \* rows of data.csv
MaxEntries == 3     \* entries of one transcript
MaxTime == 2        \* start and end times are in 0..MaxTime
MaxTurns == 2       \* turns of an Annotation passed to analyze_diarization

-----------------------------------------------------------------------------
(* main(): the environment of the batch loop *)

\* The rec_id values that occur in data.csv.
RecIds == {"rec_a", "rec_b"}

\* One row of the input table (rec_url and transcript_url only feed the
\* downloads, whose outcome is drawn when the download runs).
Rows == [rec_id : RecIds]

\* What one HTTP download can do: complete, or raise inside download_file.
DownloadOutcomes == {"ok", "error"}

\* The exceptions a call can raise.  kind tells whether `except Exception`
\* catches it: KeyboardInterrupt and SystemExit derive from BaseException only.
\* msg is str(e), which is empty for an exception raised without arguments.
Errors ==
    { [kind |-> "Exception", msg |-> "CUDA out of memory"],
      [kind |-> "Exception", msg |-> ""],
      [kind |-> "BaseException", msg |-> ""] }

\* What der_metric(reference, hypothesis, detailed=True) can return: a dict of
\* components, possibly without the component keys, possibly without the
\* "diarization error rate" key.
DetailedOutputs ==
    { ("diarization error rate" :> 45000) @@ ("false alarm" :> 5000)
        @@ ("missed detection" :> 30000) @@ ("confusion" :> 10000),
      ("diarization error rate" :> 15000) @@ ("total" :> 100000),
      ("total" :> 100000) }

\* What der_metric(reference, hypothesis) can return: the aggregate rate.
AggregateOutputs == {65000}

\* dict.get(key, default)
Get(d, key, default) == IF key \in DOMAIN d THEN d[key] ELSE default

\* download_file: True when the download completes, False when anything in it
\* raises an Exception.
download_file(outcome) == outcome = "ok"

\* Path(f"data/diarization/{rec_id}.rttm")
DiarPath(rec_id) == Some(<<"data/diarization", rec_id, "rttm">>)

\* The dict appended when a download fails.
DownloadFailedResult(rec_id) ==
    [rec_id |-> rec_id, DER |-> None, status |-> "download_failed"]

\* The dict appended by the outer except clause.
FailedResult(rec_id, e) ==
    [rec_id |-> rec_id, DER |-> None, status |-> "failed", error |-> e.msg]

\* The dict appended at the end of the try block.
SuccessResult(rec_id, m, path) ==
    [rec_id |-> rec_id,
     DER |-> Some(m.der),
     false_alarm |-> m.fa,
     missed_detection |-> m.md,
     confusion |-> m.conf,
     diarization_file |-> IF path # None THEN path ELSE None,
     status |-> "success"]

\* The history of one row, before anything ran for it.
NoHistory == [invoked |-> {}, raised |-> {}, agg |-> None]

Invoke(op) == hist' = [hist EXCEPT ![i].invoked = @ \cup {op}]
InvokeRaise(op) ==
    hist' = [hist EXCEPT ![i].invoked = @ \cup {op}, ![i].raised = @ \cup {op}]

\* Mutant of OuterExcept: the handler logs the error and appends nothing.
OuterExcept_NoAppend(e) ==
    IF e.kind = "Exception"
    THEN /\ results' = results
         /\ pc' = "fetch"
    ELSE /\ results' = results
         /\ pc' = "aborted"

\* An exception e leaves the try block of the loop body: `except Exception`
\* appends a failed result and the loop continues; anything else leaves main().
OuterExcept(e) ==
    IF e.kind = "Exception"
    THEN /\ results' = Append(results, FailedResult(table[i].rec_id, e))
         /\ pc' = "fetch"
    ELSE /\ results' = results
         /\ pc' = "aborted"

-----------------------------------------------------------------------------
(* main(): the batch loop, one action per step of the loop body *)

otherVars == <<loadVars, diagVars, typeVars>>

\* for _, row in df.iterrows(): the next row, or the end of the loop.
NextRow ==
    /\ pc = "fetch"
    /\ IF i < Len(table)
       THEN /\ i' = i + 1
            /\ hist' = Append(hist, NoHistory)
            /\ pc' = "audio"
       ELSE /\ pc' = "report"
            /\ UNCHANGED <<i, hist>>
    /\ UNCHANGED <<table, results, hypothesis, diar_path, metrics, reports, otherVars>>

\* if not download_file(row["rec_url"], audio_path): append; continue
DownloadAudio ==
    /\ pc = "audio"
    /\ \E outcome \in DownloadOutcomes :
        IF download_file(outcome)
        THEN /\ Invoke("download_audio")
             /\ pc' = "transcript"
             /\ UNCHANGED results
        ELSE /\ InvokeRaise("download_audio")
             /\ results' = Append(results, DownloadFailedResult(table[i].rec_id))
             /\ pc' = "fetch"
    /\ UNCHANGED <<table, i, hypothesis, diar_path, metrics, reports, otherVars>>

\* Mutant of DownloadTranscript: the `continue` is missing, so the body goes on
\* to the diarization after the download_failed result.
DownloadTranscript_NoContinue ==
    /\ pc = "transcript"
    /\ \E outcome \in DownloadOutcomes :
        IF download_file(outcome)
        THEN /\ Invoke("download_transcript")
             /\ pc' = "diarize"
             /\ UNCHANGED results
        ELSE /\ InvokeRaise("download_transcript")
             /\ results' = Append(results, DownloadFailedResult(table[i].rec_id))
             /\ pc' = "diarize"
    /\ UNCHANGED <<table, i, hypothesis, diar_path, metrics, reports, otherVars>>

\* if not download_file(row["transcript_url"], transcript_path): append; continue
DownloadTranscript ==
    /\ pc = "transcript"
    /\ \E outcome \in DownloadOutcomes :
        IF download_file(outcome)
        THEN /\ Invoke("download_transcript")
             /\ pc' = "diarize"
             /\ UNCHANGED results
        ELSE /\ InvokeRaise("download_transcript")
             /\ results' = Append(results, DownloadFailedResult(table[i].rec_id))
             /\ pc' = "fetch"
    /\ UNCHANGED <<table, i, hypothesis, diar_path, metrics, reports, otherVars>>

\* output = pipeline(str(audio_path)); hypothesis = output.speaker_diarization
RunDiarization ==
    /\ pc = "diarize"
    /\ \/ /\ Invoke("pipeline")
          /\ hypothesis' = Some("speaker_diarization")
          /\ pc' = "rttm"
          /\ UNCHANGED results
       \/ \E e \in Errors :
            /\ InvokeRaise("pipeline")
            /\ OuterExcept(e)
            /\ UNCHANGED hypothesis
    /\ UNCHANGED <<table, i, diar_path, metrics, reports, otherVars>>

\* Mutant of WriteRttm: the handler logs the warning and leaves diar_path set.
WriteRttm_KeepsPath ==
    /\ pc = "rttm"
    /\ \/ /\ Invoke("write_rttm")
          /\ diar_path' = DiarPath(table[i].rec_id)
          /\ pc' = "load"
          /\ UNCHANGED results
       \/ \E e \in Errors :
            /\ InvokeRaise("write_rttm")
            /\ diar_path' = DiarPath(table[i].rec_id)
            /\ IF e.kind = "Exception"
               THEN /\ pc' = "load"
                    /\ UNCHANGED results
               ELSE OuterExcept(e)
    /\ UNCHANGED <<table, i, hypothesis, metrics, reports, otherVars>>

\* The inner try: write the RTTM file; an Exception is logged as a warning and
\* diar_path becomes None.
WriteRttm ==
    /\ pc = "rttm"
    /\ \/ /\ Invoke("write_rttm")
          /\ diar_path' = DiarPath(table[i].rec_id)
          /\ pc' = "load"
          /\ UNCHANGED results
       \/ \E e \in Errors :
            /\ InvokeRaise("write_rttm")
            /\ IF e.kind = "Exception"
               THEN /\ diar_path' = None
                    /\ pc' = "load"
                    /\ UNCHANGED results
               ELSE /\ diar_path' = DiarPath(table[i].rec_id)
                    /\ OuterExcept(e)
    /\ UNCHANGED <<table, i, hypothesis, metrics, reports, otherVars>>

\* reference = load_ground_truth(str(transcript_path))
LoadReference ==
    /\ pc = "load"
    /\ \/ /\ Invoke("load_ground_truth")
          /\ pc' = "detailed"
          /\ UNCHANGED results
       \/ \E e \in Errors :
            /\ InvokeRaise("load_ground_truth")
            /\ OuterExcept(e)
    /\ UNCHANGED <<table, i, hypothesis, diar_path, metrics, reports, otherVars>>

\* The try around der_metric(..., detailed=True): the components of the dict
\* returned; the bare except sends every exception, a KeyError for a missing
\* "diarization error rate" included, to the aggregate call.
DetailedDER ==
    /\ pc = "detailed"
    /\ \/ \E d \in DetailedOutputs :
            IF "diarization error rate" \in DOMAIN d
            THEN /\ Invoke("der_detailed")
                 /\ metrics' = Some([der |-> d["diarization error rate"],
                                     fa |-> Get(d, "false alarm", 0),
                                     md |-> Get(d, "missed detection", 0),
                                     conf |-> Get(d, "confusion", 0)])
                 /\ pc' = "append"
            ELSE /\ InvokeRaise("der_detailed")
                 /\ UNCHANGED metrics
                 /\ pc' = "aggregate"
       \/ \E e \in Errors :
            /\ InvokeRaise("der_detailed")
            /\ UNCHANGED metrics
            /\ pc' = "aggregate"
    /\ UNCHANGED <<table, i, results, hypothesis, diar_path, reports, otherVars>>

\* Mutant of AggregateDER: the components are not reset to 0, so they keep what
\* an earlier row left in them, and are unbound (a NameError) on the first row.
AggregateDER_StaleComponents ==
    /\ pc = "aggregate"
    /\ \/ \E v \in AggregateOutputs :
            /\ hist' = [hist EXCEPT ![i].invoked = @ \cup {"der_aggregate"},
                                    ![i].agg = Some(v)]
            /\ IF metrics = None
               THEN /\ OuterExcept([kind |-> "Exception",
                                    msg |-> "name 'fa' is not defined"])
                    /\ UNCHANGED metrics
               ELSE /\ metrics' = Some([TheValue(metrics) EXCEPT !.der = v])
                    /\ pc' = "append"
                    /\ UNCHANGED results
       \/ \E e \in Errors :
            /\ InvokeRaise("der_aggregate")
            /\ OuterExcept(e)
            /\ UNCHANGED metrics
    /\ UNCHANGED <<table, i, hypothesis, diar_path, reports, otherVars>>

\* except: der = der_metric(reference, hypothesis); fa = md = conf = 0
AggregateDER ==
    /\ pc = "aggregate"
    /\ \/ \E v \in AggregateOutputs :
            /\ hist' = [hist EXCEPT ![i].invoked = @ \cup {"der_aggregate"},
                                    ![i].agg = Some(v)]
            /\ metrics' = Some([der |-> v, fa |-> 0, md |-> 0, conf |-> 0])
            /\ pc' = "append"
            /\ UNCHANGED results
       \/ \E e \in Errors :
            /\ InvokeRaise("der_aggregate")
            /\ OuterExcept(e)
            /\ UNCHANGED metrics
    /\ UNCHANGED <<table, i, hypothesis, diar_path, reports, otherVars>>

\* results.append({... "status": "success"})
AppendSuccess ==
    /\ pc = "append"
    /\ results' = Append(results,
                         SuccessResult(table[i].rec_id, TheValue(metrics), diar_path))
    /\ pc' = "fetch"
    /\ UNCHANGED <<table, i, hypothesis, diar_path, metrics, reports, hist, otherVars>>

\* report_df = pd.DataFrame(results); report_df.to_csv(report_path, index=False)
WriteReport ==
    /\ pc = "report"
    /\ reports' = Append(reports, results)
    /\ pc' = "summary"
    /\ UNCHANGED <<table, i, results, hypothesis, diar_path, metrics, hist, otherVars>>

\* success = report_df[report_df["status"] == "success"] and the summary log.
\* A DataFrame built from an empty list has no "status" column: KeyError.
Summary ==
    /\ pc = "summary"
    /\ pc' = IF results = <<>> THEN "crashed" ELSE "done"
    /\ UNCHANGED <<table, i, results, hypothesis, diar_path, metrics, reports, hist,
                   otherVars>>

\* The values the other functions' variables hold while main() runs.
IdleLoad == entries = <<>> /\ annotation = None
IdleDiag == reference = <<>> /\ hyp = <<>> /\ diag = None
IdleType == result = <<>> /\ label = ""

\* main() after its set-up, at `results = []`, over any input table.
Init ==
    /\ table \in SeqUpTo(Rows, MaxRecs)
    /\ i = 0
    /\ pc = "fetch"
    /\ results = <<>>
    /\ hypothesis = None /\ diar_path = None /\ metrics = None
    /\ reports = <<>>
    /\ hist = <<>>
    /\ IdleLoad /\ IdleDiag /\ IdleType

Next ==
    \/ NextRow
    \/ DownloadAudio
    \/ DownloadTranscript
    \/ RunDiarization
    \/ WriteRttm
    \/ LoadReference
    \/ DetailedDER
    \/ AggregateDER
    \/ AppendSuccess
    \/ WriteReport
    \/ Summary

Spec == Init /\ [][Next]_vars

-----------------------------------------------------------------------------
(* pyannote Annotation, as the code uses it: a mapping from (segment, track)  *)
(* to a label.  A key is <<start, end, track>>.                               *)

EmptyAnnotation == <<>>

\* annotation[Segment(start, end)] = label: item assignment keyed by the
\* segment alone (the track is the default "_"), so it adds the key or
\* replaces the label the key already has.
SetItem(a, start, end, lbl) ==
    LET key == <<start, end, "_">>
    IN  [k \in DOMAIN a \cup {key} |-> IF k = key THEN lbl ELSE a[k]]

\* annotation.get_timeline(): the segments of the annotation, each once.
get_timeline(a) == {<<k[1], k[2]>> : k \in DOMAIN a}

\* annotation.labels(): the labels in use.
labels(a) == {a[k] : k \in DOMAIN a}

\* sum(seg.duration for seg in timeline)
RECURSIVE SumDuration(_)
SumDuration(segs) ==
    IF segs = {} THEN 0
    ELSE LET s == CHOOSE x \in segs : TRUE
         IN  (s[2] - s[1]) + SumDuration(segs \ {s})

-----------------------------------------------------------------------------
(* load_ground_truth *)

Speakers == {"A", "B"}

\* One element of data["transcriptions"].
Entries == [start_time : 0..MaxTime, end_time : 0..MaxTime, speaker_id : Speakers]

\* The loop over data.get("transcriptions", []): the annotation after the
\* first k entries.
RECURSIVE LoadPrefix(_, _)
LoadPrefix(es, k) ==
    IF k = 0 THEN EmptyAnnotation
    ELSE LET seg == es[k]
             start == seg.start_time
             end == seg.end_time
             before == LoadPrefix(es, k - 1)
         IN  IF end > start
             THEN SetItem(before, start, end, seg.speaker_id)
             ELSE before

load_ground_truth(es) == LoadPrefix(es, Len(es))

IdleMain ==
    /\ table = <<>> /\ i = 0 /\ pc = "idle" /\ results = <<>>
    /\ hypothesis = None /\ diar_path = None /\ metrics = None
    /\ reports = <<>> /\ hist = <<>>

InitLoad ==
    /\ entries \in SeqUpTo(Entries, MaxEntries)
    /\ annotation = None
    /\ IdleMain /\ IdleDiag /\ IdleType

LoadGroundTruth ==
    /\ annotation = None
    /\ annotation' = Some(load_ground_truth(entries))
    /\ UNCHANGED <<entries, mainVars, diagVars, typeVars>>

NextLoad == LoadGroundTruth

SpecLoad == InitLoad /\ [][NextLoad]_vars

-----------------------------------------------------------------------------
(* analyze_diarization *)

Segments == {<<s, e>> \in (0..MaxTime) \X (0..MaxTime) : s < e}

\* The annotations with at most MaxTurns turns.
Annotations ==
    UNION { [{<<sg[1], sg[2], "_">> : sg \in S} -> Speakers] :
            S \in {T \in SUBSET Segments : Cardinality(T) <= MaxTurns} }

\* librosa.get_duration(path=...)
AudioDurations == {0, 3}

\* Mutant of analyze_diarization: the quotient is taken without the guard on
\* ref_duration.
analyze_diarization_NoGuard(audio_duration, ref, hy) ==
    LET ref_duration == SumDuration(get_timeline(ref))
        hyp_duration == SumDuration(get_timeline(hy))
        missing_speech == ref_duration - hyp_duration
        missing_pct == [num |-> missing_speech * 100, den |-> ref_duration]
    IN  [audio_duration |-> audio_duration,
         ref_speech_duration |-> ref_duration,
         hyp_speech_duration |-> hyp_duration,
         missing_speech_seconds |-> missing_speech,
         missing_speech_pct |-> missing_pct,
         speakers_detected |-> Cardinality(labels(hy)),
         speakers_expected |-> Cardinality(labels(ref))]

analyze_diarization(audio_duration, ref, hy) ==
    LET ref_duration == SumDuration(get_timeline(ref))
        hyp_duration == SumDuration(get_timeline(hy))
        missing_speech == ref_duration - hyp_duration
        missing_pct == IF ref_duration > 0
                       THEN [num |-> missing_speech * 100, den |-> ref_duration]
                       ELSE [num |-> 0, den |-> 1]
    IN  [audio_duration |-> audio_duration,
         ref_speech_duration |-> ref_duration,
         hyp_speech_duration |-> hyp_duration,
         missing_speech_seconds |-> missing_speech,
         missing_speech_pct |-> missing_pct,
         speakers_detected |-> Cardinality(labels(hy)),
         speakers_expected |-> Cardinality(labels(ref))]

\* The keys of the diagnostic record analyze_diarization returns.
DiagnosticFields ==
    {"audio_duration", "ref_speech_duration", "hyp_speech_duration",
     "missing_speech_seconds", "missing_speech_pct",
     "speakers_detected", "speakers_expected"}

\* The columns analyze_report reads from the rows whose status is success.
ReportColumnsRead ==
    {"status", "DER", "false_alarm", "missed_detection", "confusion",
     "missing_speech_pct"}

InitDiag ==
    /\ reference \in Annotations
    /\ hyp \in Annotations
    /\ diag = None
    /\ IdleMain /\ IdleLoad /\ IdleType

AnalyzeDiarization ==
    /\ diag = None
    /\ \E d \in AudioDurations :
        diag' = Some(analyze_diarization(d, reference, hyp))
    /\ UNCHANGED <<reference, hyp, mainVars, loadVars, typeVars>>

NextDiag == AnalyzeDiarization

SpecDiag == InitDiag /\ [][NextDiag]_vars

-----------------------------------------------------------------------------
(* identify_problem_type.  Rates are in units of 1e-5. *)

GoodBelow == 20000              \* result["DER"] < 0.2
HighFalseAlarmAbove == 30000    \* fa > 0.3
HighConfusionAbove == 40000     \* conf > 0.4
HighMissedAbove == 30000        \* md > 0.3

\* Mutant of identify_problem_type: the false-alarm threshold is tested with >=.
identify_problem_type_NonStrict(r) ==
    LET fa == Get(r, "false_alarm", 0)
        md == Get(r, "missed_detection", 0)
        conf == Get(r, "confusion", 0)
    IN  IF r["DER"] < GoodBelow THEN "GOOD"
        ELSE IF fa >= HighFalseAlarmAbove THEN "HIGH_FALSE_ALARM"
        ELSE IF conf > HighConfusionAbove THEN "HIGH_CONFUSION"
        ELSE IF md > HighMissedAbove THEN "HIGH_MISSED_DETECTION"
        ELSE IF fa > md /\ fa > conf THEN "FALSE_ALARM_DOMINANT"
        ELSE IF conf > fa /\ conf > md THEN "CONFUSION_DOMINANT"
        ELSE "MIXED_ISSUES"

\* Mutant of identify_problem_type: the dominance tests let a tie win.
identify_problem_type_TieWins(r) ==
    LET fa == Get(r, "false_alarm", 0)
        md == Get(r, "missed_detection", 0)
        conf == Get(r, "confusion", 0)
    IN  IF r["DER"] < GoodBelow THEN "GOOD"
        ELSE IF fa > HighFalseAlarmAbove THEN "HIGH_FALSE_ALARM"
        ELSE IF conf > HighConfusionAbove THEN "HIGH_CONFUSION"
        ELSE IF md > HighMissedAbove THEN "HIGH_MISSED_DETECTION"
        ELSE IF fa >= md /\ fa >= conf THEN "FALSE_ALARM_DOMINANT"
        ELSE IF conf >= fa /\ conf >= md THEN "CONFUSION_DOMINANT"
        ELSE "MIXED_ISSUES"

identify_problem_type(r) ==
    LET fa == Get(r, "false_alarm", 0)
        md == Get(r, "missed_detection", 0)
        conf == Get(r, "confusion", 0)
    IN  IF r["DER"] < GoodBelow THEN "GOOD"
        ELSE IF fa > HighFalseAlarmAbove THEN "HIGH_FALSE_ALARM"
        ELSE IF conf > HighConfusionAbove THEN "HIGH_CONFUSION"
        ELSE IF md > HighMissedAbove THEN "HIGH_MISSED_DETECTION"
        ELSE IF fa > md /\ fa > conf THEN "FALSE_ALARM_DOMINANT"
        ELSE IF conf > fa /\ conf > md THEN "CONFUSION_DOMINANT"
        ELSE "MIXED_ISSUES"

\* The rates tried: the thresholds, their neighbours, and values between.
Rates == {0, 10000, 19999, 20000, 25000, 30000, 30001, 35000, 40000, 40001, 50000}

Components == {"false_alarm", "missed_detection", "confusion"}

\* The dicts passed in: "DER" and any of the component keys.
TypeInputs == UNION {[{"DER"} \cup S -> Rates] : S \in SUBSET Components}

InitType ==
    /\ result \in TypeInputs
    /\ label = ""
    /\ IdleMain /\ IdleLoad /\ IdleDiag

IdentifyProblemType ==
    /\ label = ""
    /\ label' = identify_problem_type(result)
    /\ UNCHANGED <<result, mainVars, loadVars, diagVars>>

NextType == IdentifyProblemType

SpecType == InitType /\ [][NextType]_vars

-----------------------------------------------------------------------------
(* Properties of the batch loop (Spec) *)

Statuses == {"success", "download_failed", "failed"}

\* The steps of the loop body that follow the two downloads.
ProcessingSteps ==
    {"pipeline", "write_rttm", "load_ground_truth", "der_detailed", "der_aggregate"}

\* The positions of main() after the loop.
AfterLoop == {"report", "summary", "done", "crashed"}

\* Row k's pass through the loop body is over and the loop is going on: main()
\* is at the loop head for the next row, or past row k already, or, row k being
\* the last, in the code after the loop.
LoopWentOn(k) ==
    \/ k < i
    \/ k = i /\ pc = "fetch"
    \/ k = i /\ k = Len(table) /\ pc \in AfterLoop

DownloadFailed(k) ==
    hist[k].raised \cap {"download_audio", "download_transcript"} # {}

\* C1: a row whose audio download fails, or whose transcript download fails
\* after the audio arrived, gets exactly one result, with status
\* download_failed; neither the diarization model nor the scorer (nor any
\* other processing step) is invoked for it; and the loop goes on to the next
\* row.
C1_DownloadFailureSkipsRecording ==
    /\ Len(results) <= i
    /\ \A k \in 1..Len(hist) :
        DownloadFailed(k) =>
            /\ hist[k].invoked \cap ProcessingSteps = {}
            /\ "download_audio" \in hist[k].raised
                   => "download_transcript" \notin hist[k].invoked
            /\ Len(results) >= k
            /\ results[k].status = "download_failed"
            /\ results[k].rec_id = table[k].rec_id
            /\ results[k].DER = None
            /\ k = i => Len(results) = k
            /\ LoopWentOn(k)

C1_Witness ==
    /\ pc = "done"
    /\ Len(table) = 2
    /\ "download_audio" \in hist[1].raised
    /\ "download_transcript" \in hist[2].raised
    /\ "download_audio" \notin hist[2].raised
    /\ results[1].status = "download_failed"
    /\ results[2].status = "download_failed"

\* C2: a row whose diarization call raises gets a result with status failed
\* and a non-empty error message, and the loop goes on to the later rows,
\* whatever is raised.
C2_DiarizationErrorIsolated ==
    \A k \in 1..Len(hist) :
        "pipeline" \in hist[k].raised =>
            /\ Len(results) >= k
            /\ results[k].status = "failed"
            /\ results[k].error # ""
            /\ LoopWentOn(k)

\* C3 as stated: a row whose RTTM write raised never ends with status success.
C3_RttmErrorIsFailure ==
    \A k \in 1..Len(results) :
        "write_rttm" \in hist[k].raised => results[k].status # "success"

\* C3 amended: an Exception raised while writing the RTTM file is not a
\* processing failure.  The remaining steps still run; the row ends with status
\* success and diarization_file None unless a later step (ground-truth load,
\* aggregate scoring) raises, and only then with status failed.  Conversely a
\* success row has diarization_file None only when the RTTM write raised.
C3_RttmErrorIsWarning ==
    \A k \in 1..Len(results) :
        /\ "write_rttm" \in hist[k].raised =>
            /\ "load_ground_truth" \in hist[k].invoked
            /\ results[k].status \in {"success", "failed"}
            /\ results[k].status = "failed"
                 <=> hist[k].raised \cap {"load_ground_truth", "der_aggregate"} # {}
            /\ results[k].status = "success" => results[k].diarization_file = None
        /\ (results[k].status = "success" /\ "write_rttm" \notin hist[k].raised)
              => results[k].diarization_file = DiarPath(table[k].rec_id)

C3_Witness ==
    \E k \in 1..Len(results) :
        /\ "write_rttm" \in hist[k].raised
        /\ results[k].status = "success"
        /\ results[k].diarization_file = None

\* C4: when the detailed DER computation raises and the aggregate computation
\* returns, the row's result has status success, its DER is the aggregate rate
\* and its three components are 0; after the detailed computation raised, a
\* row is failed only because the aggregate computation raised as well.
C4_FallbackIsSuccess ==
    \A k \in 1..Len(results) :
        "der_detailed" \in hist[k].raised =>
            /\ hist[k].agg # None =>
                /\ results[k].status = "success"
                /\ results[k].DER = hist[k].agg
                /\ results[k].false_alarm = 0
                /\ results[k].missed_detection = 0
                /\ results[k].confusion = 0
            /\ results[k].status = "failed" <=> "der_aggregate" \in hist[k].raised
            /\ results[k].status \in {"success", "failed"}

C4_Witness ==
    \E k \in 1..Len(results) :
        /\ "der_detailed" \in hist[k].raised
        /\ hist[k].agg = Some(65000)
        /\ results[k].status = "success"
        /\ results[k].DER = Some(65000)

\* The results so far are the results of the first rows, in the rows' order.
ResultsFollowTable ==
    /\ Len(results) <= Len(table)
    /\ \A k \in 1..Len(results) :
        /\ results[k].rec_id = table[k].rec_id
        /\ results[k].status \in Statuses

ReportWrittenOnceAtEnd ==
    /\ Len(reports) <= 1
    /\ pc \in {"summary", "done", "crashed"} =>
        /\ Len(reports) = 1
        /\ reports[1] = results
        /\ Len(results) = Len(table)
    /\ pc \notin {"summary", "done", "crashed"} => reports = <<>>

\* A step only ever appends: what was appended stays as it was.
OnlyAppended(old, new) ==
    /\ Len(new) >= Len(old)
    /\ \A k \in 1..Len(old) : new[k] = old[k]

\* C5: after main() ran over a table, results holds one result per row, in the
\* rows' order, each with a status among success, download_failed and failed;
\* no result changes once appended; the report is written once, after the
\* last row got its result, and holds those results.
C5_OneResultPerRecording ==
    /\ [](ResultsFollowTable /\ ReportWrittenOnceAtEnd)
    /\ [][OnlyAppended(results, results') /\ OnlyAppended(reports, reports')]_vars

C5_Witness ==
    /\ pc = "done"
    /\ Len(table) = 2
    /\ table[1].rec_id # table[2].rec_id
    /\ results[1].status = "failed"
    /\ results[2].status = "success"
    /\ reports = <<results>>

\* C6: every result marked success carries the diagnostic record, so every
\* success row of the report has the columns analyze_report reads.
C6_SuccessCarriesDiagnostics ==
    \A k \in 1..Len(results) :
        results[k].status = "success" =>
            /\ DiagnosticFields \subseteq DOMAIN results[k]
            /\ ReportColumnsRead \subseteq DOMAIN results[k]

-----------------------------------------------------------------------------
(* Properties of identify_problem_type (SpecType) *)

ResultFA == Get(result, "false_alarm", 0)
ResultMD == Get(result, "missed_detection", 0)
ResultConf == Get(result, "confusion", 0)

\* C7: the threshold rules are tried in order with strict comparisons and the
\* first match wins: DER < 0.2 is GOOD whatever the components (DER 0.1 with
\* false alarm 0.5 is GOOD); else false alarm > 0.3 is HIGH_FALSE_ALARM (0.3
\* itself is not, 0.30001 is); else confusion > 0.4 is HIGH_CONFUSION; else
\* missed detection > 0.3 is HIGH_MISSED_DETECTION.
C7_ThresholdCascade ==
    label # "" =>
        /\ result["DER"] < 20000 <=> label = "GOOD"
        /\ (result["DER"] >= 20000 /\ ResultFA > 30000)
              <=> label = "HIGH_FALSE_ALARM"
        /\ (result["DER"] >= 20000 /\ ResultFA <= 30000 /\ ResultConf > 40000)
              <=> label = "HIGH_CONFUSION"
        /\ (result["DER"] >= 20000 /\ ResultFA <= 30000 /\ ResultConf <= 40000
               /\ ResultMD > 30000)
              <=> label = "HIGH_MISSED_DETECTION"
        /\ (result["DER"] = 10000 /\ ResultFA = 50000) => label = "GOOD"
        /\ ResultFA = 30000 => label # "HIGH_FALSE_ALARM"
        /\ (result["DER"] >= 20000 /\ ResultFA = 30001) => label = "HIGH_FALSE_ALARM"

C7_Witness ==
    /\ label = "HIGH_CONFUSION"
    /\ result["DER"] = 20000
    /\ ResultFA = 30000
    /\ ResultConf = 40001
    /\ ResultMD = 50000

\* None of the four threshold rules matches.
NoThresholdRule ==
    /\ result["DER"] >= 20000
    /\ ResultFA <= 30000
    /\ ResultConf <= 40000
    /\ ResultMD <= 30000

\* C8 as stated: with no threshold rule matching, FALSE_ALARM_DOMINANT whenever
\* the false-alarm rate is the largest of the three components (no component
\* exceeds it), else CONFUSION_DOMINANT whenever the confusion rate is the
\* largest, else MIXED_ISSUES, ties included.
C8_LargestComponentWins ==
    (label # "" /\ NoThresholdRule) =>
        LET faLargest == ResultFA >= ResultMD /\ ResultFA >= ResultConf
            confLargest == ResultConf >= ResultFA /\ ResultConf >= ResultMD
        IN  label = IF faLargest THEN "FALSE_ALARM_DOMINANT"
                    ELSE IF confLargest THEN "CONFUSION_DOMINANT"
                    ELSE "MIXED_ISSUES"

\* C8 amended: with no threshold rule matching, FALSE_ALARM_DOMINANT exactly
\* when the false-alarm rate is strictly greater than both other components,
\* CONFUSION_DOMINANT exactly when the confusion rate is strictly greater than
\* both others, and MIXED_ISSUES in every other case: when missed detection is
\* strictly the largest, and whenever the largest value is shared (a tie).
C8_StrictlyLargestComponentWins ==
    (label # "" /\ NoThresholdRule) =>
        LET faLargest == ResultFA > ResultMD /\ ResultFA > ResultConf
            confLargest == ResultConf > ResultFA /\ ResultConf > ResultMD
        IN  /\ label = IF faLargest THEN "FALSE_ALARM_DOMINANT"
                       ELSE IF confLargest THEN "CONFUSION_DOMINANT"
                       ELSE "MIXED_ISSUES"
            /\ (ResultFA = ResultMD /\ ResultFA >= ResultConf) => label = "MIXED_ISSUES"
            /\ (ResultFA = ResultConf /\ ResultFA >= ResultMD) => label = "MIXED_ISSUES"

C8_Witness ==
    /\ label = "MIXED_ISSUES"
    /\ NoThresholdRule
    /\ ResultFA = 25000
    /\ ResultMD = 25000
    /\ ResultConf = 10000

-----------------------------------------------------------------------------
(* Properties of load_ground_truth (SpecLoad) *)

ValidEntries == SelectSeq(entries, LAMBDA e : e.end_time > e.start_time)

\* C9: every entry with end <= start is dropped and every other entry is kept
\* as an interval of its own with its speaker label, with no deduplication and
\* no overwriting: the annotation has as many intervals as there are valid
\* entries, and each valid entry's segment is there with the entry's speaker.
C9_EveryValidEntryKept ==
    annotation # None =>
        LET a == TheValue(annotation)
        IN  /\ \A key \in DOMAIN a : key[2] > key[1]
            /\ Cardinality(DOMAIN a) = Len(ValidEntries)
            /\ \A j \in 1..Len(ValidEntries) :
                \E key \in DOMAIN a :
                    /\ key[1] = ValidEntries[j].start_time
                    /\ key[2] = ValidEntries[j].end_time
                    /\ a[key] = ValidEntries[j].speaker_id

-----------------------------------------------------------------------------
(* Properties of analyze_diarization (SpecDiag) *)

RefDuration == SumDuration({<<k[1], k[2]>> : k \in DOMAIN reference})
HypDuration == SumDuration({<<k[1], k[2]>> : k \in DOMAIN hyp})

\* C10: missing_speech_pct is exactly 0 whenever the reference speech duration
\* is 0, whatever the hypothesis duration; with a positive reference duration
\* it is (ref_duration - hyp_duration) / ref_duration * 100, negative exactly
\* when the hypothesis duration exceeds the reference duration.
C10_MissingSpeechPct ==
    diag # None =>
        LET pct == TheValue(diag).missing_speech_pct
        IN  /\ pct.den > 0
            /\ RefDuration = 0 => pct.num = 0
            /\ RefDuration > 0 =>
                /\ pct.num * RefDuration = (RefDuration - HypDuration) * 100 * pct.den
                /\ pct.num < 0 <=> HypDuration > RefDuration

C10_Witness ==
    /\ diag # None
    /\ RefDuration = 0
    /\ HypDuration > 0
    /\ TheValue(diag).missing_speech_pct.num = 0
    /\ TheValue(diag).missing_speech_seconds < 0

=============================================================================
